---- MODULE Spec2Model ----
(***************************************************************************)
(* State-machine model of GameClient (src/game.js): the WebSocket session  *)
(* with its reconnection timers, the keyboard movement controller, the     *)
(* local mirror of players and avatars, the camera and the culling step of *)
(* the draw pass.                                                          *)
(*                                                                         *)
(* JavaScript numbers that may be undefined or NaN are modelled as sets of *)
(* at most one integer: {} is undefined / NaN, {v} is the number v.        *)
(* Arithmetic lifted to these sets propagates NaN as JavaScript does, and  *)
(* every comparison with NaN is false.                                     *)
(***************************************************************************)
EXTENDS Integers, Sequences, FiniteSets, TLC

\* ------------------------------------------------------------------------
\* Bounds of the model
\* ------------------------------------------------------------------------

\* largest number of movement keys held down at once
MaxHeld == 2

\* ------------------------------------------------------------------------
\* Program constants
\* ------------------------------------------------------------------------

maxReconnectAttempts == 5

worldWidth == 2048

worldHeight == 2048

\* margin of isPositionVisible around the canvas
VisibleMargin == 50

\* the movementKeys array of the keydown and keyup listeners
movementKeys ==
    {"ArrowUp", "ArrowDown", "ArrowLeft", "ArrowRight",
     "w", "W", "s", "S", "a", "A", "d", "D"}

\* the values of the keyMap object literal of getDirectionFromKey
Directions == {"up", "down", "left", "right"}

VARIABLES
    ws,                 \* readyState of this.ws: "null", "connecting", "open", "closed"
    reconnectAttempts,  \* this.reconnectAttempts
    timers,             \* number of pending setTimeout callbacks of attemptReconnect
    scheduled,          \* history: timers scheduled since the last successful open
    keysPressed,        \* this.keysPressed, its keys in insertion order
    isMoving,           \* this.isMoving
    currentDirection,   \* this.currentDirection, "null" when null
    movementLoopId,     \* TRUE iff this.movementLoopId holds a frame request
    frameRequests,      \* number of requestAnimationFrame callbacks of movementLoop
                        \* that are requested and have neither run nor been cancelled
    dropped,            \* history: direction of a move intent that was dropped and
                        \* whose key has stayed first-held since, "none" otherwise
    sent,               \* history: the messages passed to sendMessage by the last event
    myPlayerId,         \* this.myPlayerId, "null" when null
    players,            \* this.players: a function from the ids present to their records
    avatars,            \* this.avatars: a function from the names present to their definitions
    viewportX,          \* this.viewportX, {} when NaN
    viewportY,          \* this.viewportY, {} when NaN
    canvasWidth,        \* this.canvas.width
    canvasHeight,       \* this.canvas.height
    drawn,              \* ids that passed isPositionVisible in the most recent draw()
    received,           \* history: data.action of the message dispatched last,
                        \* "none" before the first, "unparsable" for text that is no JSON
    fault,              \* history: the event handler that ran last threw
    pendingImages,      \* the img.onload closures of drawPlayer not yet run: the id of
                        \* the captured player, and whether a later draw() has run since
    painted             \* history: the closure whose sprite and label the last event painted

sessionVars == <<ws, reconnectAttempts, timers, scheduled>>

inputVars == <<keysPressed, isMoving, currentDirection, movementLoopId, frameRequests,
               dropped>>

pipelineVars == <<received, fault, pendingImages, painted>>

worldVars == <<myPlayerId, players, avatars, viewportX, viewportY,
               canvasWidth, canvasHeight, drawn, received, fault, pendingImages, painted>>

vars == <<ws, reconnectAttempts, timers, scheduled,
          keysPressed, isMoving, currentDirection, movementLoopId, frameRequests,
          dropped, sent,
          myPlayerId, players, avatars, viewportX, viewportY,
          canvasWidth, canvasHeight, drawn, received, fault, pendingImages, painted>>

\* ------------------------------------------------------------------------
\* Transport session
\* ------------------------------------------------------------------------

\* sendMessage without the readyState test: everything counts as transmitted
sendMessageUnchecked(wsState, action, direction) ==
    [action |-> action, direction |-> direction, delivered |-> TRUE]

\* sendMessage: the message is transmitted only while the socket is open,
\* otherwise it is logged and dropped
sendMessage(wsState, action, direction) ==
    [action |-> action, direction |-> direction, delivered |-> (wsState = "open")]

\* attemptReconnect with an off-by-one guard: an attempt is still made at the maximum
attemptReconnectOffByOne(attempts, pending, sched) ==
    IF attempts <= maxReconnectAttempts
    THEN [attempts |-> attempts + 1, timers |-> pending + 1, scheduled |-> sched + 1]
    ELSE [attempts |-> attempts, timers |-> pending, scheduled |-> sched]

\* attemptReconnect: below the maximum, count the attempt and schedule a timer
attemptReconnect(attempts, pending, sched) ==
    IF attempts < maxReconnectAttempts
    THEN [attempts |-> attempts + 1, timers |-> pending + 1, scheduled |-> sched + 1]
    ELSE [attempts |-> attempts, timers |-> pending, scheduled |-> sched]

\* connectToServer that throws after the socket and its onclose handler are in
\* place: the catch block schedules a timer and the socket's close schedules another
connectToServerThrowsLate(throws, wsState, attempts, pending, sched) ==
    IF throws
    THEN LET r == attemptReconnect(attempts, pending, sched)
         IN [ws |-> "connecting", attempts |-> r.attempts, timers |-> r.timers,
             scheduled |-> r.scheduled]
    ELSE [ws |-> "connecting", attempts |-> attempts, timers |-> pending,
          scheduled |-> sched]

\* connectToServer: either the socket is created (readyState CONNECTING), or
\* the constructor throws, this.ws keeps its value and the catch block calls
\* attemptReconnect
connectToServer(throws, wsState, attempts, pending, sched) ==
    IF throws
    THEN LET r == attemptReconnect(attempts, pending, sched)
         IN [ws |-> wsState, attempts |-> r.attempts, timers |-> r.timers,
             scheduled |-> r.scheduled]
    ELSE [ws |-> "connecting", attempts |-> attempts, timers |-> pending,
          scheduled |-> sched]

\* ws.onopen: reset the counter and send join_game
OnOpen ==
    /\ ws = "connecting"
    /\ ws' = "open"
    /\ reconnectAttempts' = 0
    /\ scheduled' = 0
    /\ sent' = <<sendMessage("open", "join_game", "none")>>
    /\ UNCHANGED <<timers, inputVars, worldVars>>

\* ws.onclose: fires once for a socket that was connecting or open
OnClose ==
    /\ ws \in {"connecting", "open"}
    /\ LET r == attemptReconnect(reconnectAttempts, timers, scheduled)
       IN /\ reconnectAttempts' = r.attempts
          /\ timers' = r.timers
          /\ scheduled' = r.scheduled
    /\ ws' = "closed"
    /\ sent' = <<>>
    /\ UNCHANGED <<inputVars, worldVars>>

\* the setTimeout callback of attemptReconnect: the timer is consumed and
\* connectToServer runs
ReconnectTimer ==
    /\ timers > 0
    /\ \E throws \in BOOLEAN :
         LET r == connectToServer(throws, ws, reconnectAttempts, timers - 1, scheduled)
         IN /\ ws' = r.ws
            /\ reconnectAttempts' = r.attempts
            /\ timers' = r.timers
            /\ scheduled' = r.scheduled
    /\ sent' = <<>>
    /\ UNCHANGED <<inputVars, worldVars>>

\* ------------------------------------------------------------------------
\* Input / movement controller
\* ------------------------------------------------------------------------

\* getDirectionFromKey: keyMap[key], "undefined" for a key that is not in keyMap
getDirectionFromKey(key) ==
    CASE key \in {"ArrowUp", "w"} -> "up"
      [] key \in {"ArrowDown", "s"} -> "down"
      [] key \in {"ArrowLeft", "a"} -> "left"
      [] key \in {"ArrowRight", "d"} -> "right"
      [] OTHER -> "undefined"

\* the keys of an object after `delete obj[key]`: the others keep their order
deleteKey(keys, key) == SelectSeq(keys, LAMBDA k : k # key)

InKeys(keys, key) == \E i \in 1..Len(keys) : keys[i] = key

\* stopMovement: cancel the frame request, clear the movement state and send stop
stopMovement(wsState) ==
    [movementLoopId |-> FALSE, isMoving |-> FALSE, currentDirection |-> "null",
     sent |-> <<sendMessage(wsState, "stop", "none")>>]

\* startMovement without its guard: a frame is requested for every new key
startMovementUnguarded(loopId, requests) ==
    [movementLoopId |-> TRUE, frameRequests |-> requests + 1]

\* startMovement: request a frame unless this.movementLoopId holds one
startMovement(loopId, requests) ==
    IF loopId
    THEN [movementLoopId |-> loopId, frameRequests |-> requests]
    ELSE [movementLoopId |-> TRUE, frameRequests |-> requests + 1]

\* keydown listener
Keydown(key) ==
    /\ key \in movementKeys
    /\ Len(keysPressed) < MaxHeld \/ InKeys(keysPressed, key)
    /\ IF ~InKeys(keysPressed, key)
       THEN LET r == startMovement(movementLoopId, frameRequests)
            IN /\ keysPressed' = Append(keysPressed, key)
               /\ movementLoopId' = r.movementLoopId
               /\ frameRequests' = r.frameRequests
       ELSE UNCHANGED <<keysPressed, movementLoopId, frameRequests>>
    /\ sent' = <<>>
    /\ UNCHANGED <<sessionVars, worldVars, isMoving, currentDirection, dropped>>

\* keyup listener
Keyup(key) ==
    /\ key \in movementKeys
    /\ keysPressed' = deleteKey(keysPressed, key)
    /\ IF keysPressed' = <<>>
       THEN LET r == stopMovement(ws)
            IN /\ movementLoopId' = r.movementLoopId
               /\ isMoving' = r.isMoving
               /\ currentDirection' = r.currentDirection
               /\ sent' = r.sent
               \* cancelAnimationFrame takes the request of this.movementLoopId back
               /\ frameRequests' = IF movementLoopId THEN frameRequests - 1
                                   ELSE frameRequests
       ELSE /\ sent' = <<>>
            /\ UNCHANGED <<movementLoopId, frameRequests, isMoving, currentDirection>>
    /\ dropped' = IF keysPressed # <<>> /\ keysPressed' # <<>>
                     /\ Head(keysPressed') = Head(keysPressed)
                  THEN dropped ELSE "none"
    /\ UNCHANGED <<sessionVars, worldVars>>

\* movementLoop, run by a requested animation frame; the request that runs is
\* used up, and in stopMovement the cancel of its id has no effect
MovementLoop ==
    /\ frameRequests > 0
    /\ IF keysPressed = <<>>
       THEN LET r == stopMovement(ws)
            IN /\ movementLoopId' = r.movementLoopId
               /\ isMoving' = r.isMoving
               /\ currentDirection' = r.currentDirection
               /\ sent' = r.sent
               /\ dropped' = "none"
               /\ frameRequests' = frameRequests - 1
       ELSE LET direction == getDirectionFromKey(Head(keysPressed))
            IN /\ IF direction # "undefined" /\ direction # currentDirection
                  THEN /\ currentDirection' = direction
                       /\ sent' = <<sendMessage(ws, "move", direction)>>
                       /\ isMoving' = TRUE
                       /\ dropped' = IF ws = "open" THEN "none" ELSE direction
                  ELSE /\ sent' = <<>>
                       /\ UNCHANGED <<currentDirection, isMoving, dropped>>
               /\ movementLoopId' = TRUE
               /\ frameRequests' = (frameRequests - 1) + 1
    /\ UNCHANGED <<sessionVars, worldVars, keysPressed>>

\* ------------------------------------------------------------------------
\* World state store, camera and culling
\* ------------------------------------------------------------------------

\* ids, coordinates, avatar names and definitions the server messages draw on
PlayerIds == {"A", "B"}

Coord == {100, 900, 2100}

AvatarNames == {"a1"}

AvatarDefs == {"d1", "d2"}

\* canvas sizes (window.innerWidth, window.innerHeight); the widths and heights
\* are even, so that canvas.width / 2 is an integer
CanvasSizes == {<<800, 600>>, <<2400, 600>>}

\* positions of the complete Player records of a snapshot or of player_joined
Points == {<<100, 100>>, <<900, 900>>, <<2100, 900>>}

\* a complete Player record of a snapshot or of player_joined; facing is a
\* string, animationFrame a number
FullRecords ==
    {[x |-> {pt[1]}, y |-> {pt[2]}, avatar |-> "a1", facing |-> "south",
      animationFrame |-> {0}] : pt \in Points}

\* a Player record with no field at all
NoFields ==
    [x |-> {}, y |-> {}, avatar |-> "undefined", facing |-> "undefined",
     animationFrame |-> {}]

\* a partial Player of players_moved: x, y or both; a field that the patch
\* does not carry is {} (numbers) or "undefined" (strings)
PartialRecords ==
    {[NoFields EXCEPT !.x = px, !.y = py] :
        px \in {{}} \cup {{c} : c \in Coord}, py \in {{}} \cup {{c} : c \in Coord}}
    \ {NoFields}

AllSnapshots == UNION {[S -> FullRecords] : S \in SUBSET PlayerIds}

\* data.players of join_game: a mirror that holds the joining player
Snapshots(playerId) == {f \in AllSnapshots : playerId \in DOMAIN f}

\* data.avatars of join_game
AvatarMaps == UNION {[S -> AvatarDefs] : S \in SUBSET AvatarNames}

\* data.players of players_moved: one entry, or an entry for every id that
\* moves it along x
Patches ==
    UNION {[{id} -> PartialRecords] : id \in PlayerIds}
    \cup [PlayerIds -> {r \in PartialRecords : r.y = {}}]

\* Math.min and Math.max on numbers that may be NaN
MathMin(a, b) == {IF p < q THEN p ELSE q : p \in a, q \in b}

MathMax(a, b) == {IF p > q THEN p ELSE q : p \in a, q \in b}

Minus(a, b) == {p - q : p \in a, q \in b}

\* the spread written the other way round, { ...patch, ...base }: the record wins
SpreadBaseWins(base, patch) ==
    [x |-> IF base.x # {} THEN base.x ELSE patch.x,
     y |-> IF base.y # {} THEN base.y ELSE patch.y,
     avatar |-> IF base.avatar # "undefined" THEN base.avatar ELSE patch.avatar,
     facing |-> IF base.facing # "undefined" THEN base.facing ELSE patch.facing,
     animationFrame |-> IF base.animationFrame # {} THEN base.animationFrame
                        ELSE patch.animationFrame]

\* the object spread { ...base, ...patch }: a field of patch wins where patch has it
Spread(base, patch) ==
    [x |-> IF patch.x # {} THEN patch.x ELSE base.x,
     y |-> IF patch.y # {} THEN patch.y ELSE base.y,
     avatar |-> IF patch.avatar # "undefined" THEN patch.avatar ELSE base.avatar,
     facing |-> IF patch.facing # "undefined" THEN patch.facing ELSE base.facing,
     animationFrame |-> IF patch.animationFrame # {} THEN patch.animationFrame
                        ELSE base.animationFrame]

\* what spreading this.players[playerId] contributes: its fields, nothing when undefined
RecordOrEmpty(pl, id) ==
    IF id \in DOMAIN pl THEN pl[id] ELSE NoFields

\* the forEach of handlePlayersMoved: every entry of the patch is assigned
mergePlayers(pl, patch) ==
    [id \in DOMAIN pl \cup DOMAIN patch |->
        IF id \in DOMAIN patch THEN Spread(RecordOrEmpty(pl, id), patch[id]) ELSE pl[id]]

\* the clamp with its bounds applied in the other order: the upper bound wins
clampViewportUpperWins(desired, worldSize, canvasSize) ==
    MathMin({worldSize - canvasSize}, MathMax({0}, desired))

\* Math.max(0, Math.min(desired, worldSize - canvasSize))
clampViewport(desired, worldSize, canvasSize) ==
    MathMax({0}, MathMin(desired, {worldSize - canvasSize}))

\* centerViewportOnMyAvatar: the new (viewportX, viewportY)
centerViewportOnMyAvatar(my, pl, cw, ch, vx, vy) ==
    IF my = "null" \/ my \notin DOMAIN pl
    THEN [x |-> vx, y |-> vy]
    ELSE [x |-> clampViewport(Minus(pl[my].x, {cw \div 2}), worldWidth, cw),
          y |-> clampViewport(Minus(pl[my].y, {ch \div 2}), worldHeight, ch)]

\* updateViewportForMyAvatar: the new (viewportX, viewportY)
updateViewportForMyAvatar(my, pl, cw, ch, vx, vy) ==
    IF my = "null" \/ my \notin DOMAIN pl
    THEN [x |-> vx, y |-> vy]
    ELSE [x |-> clampViewport(Minus(pl[my].x, {cw \div 2}), worldWidth, cw),
          y |-> clampViewport(Minus(pl[my].y, {ch \div 2}), worldHeight, ch)]

\* worldToScreen
worldToScreen(worldX, worldY, vx, vy) ==
    [x |-> Minus(worldX, vx), y |-> Minus(worldY, vy)]

\* isPositionVisible without the right and bottom edges
isPositionVisibleNoFarEdge(worldX, worldY, vx, vy, cw, ch) ==
    LET screen == worldToScreen(worldX, worldY, vx, vy)
    IN /\ \E sx \in screen.x : sx >= -VisibleMargin
       /\ \E sy \in screen.y : sy >= -VisibleMargin

\* isPositionVisible
isPositionVisible(worldX, worldY, vx, vy, cw, ch) ==
    LET screen == worldToScreen(worldX, worldY, vx, vy)
    IN /\ \E sx \in screen.x : sx >= -VisibleMargin /\ sx <= cw + VisibleMargin
       /\ \E sy \in screen.y : sy >= -VisibleMargin /\ sy <= ch + VisibleMargin

\* drawPlayers: the players handed to drawPlayer
drawPlayers(pl, vx, vy, cw, ch) ==
    {id \in DOMAIN pl : isPositionVisible(pl[id].x, pl[id].y, vx, vy, cw, ch)}

\* handleJoinGame without the test of data.success: the fields of the message
\* are assigned whatever it reports
HandleJoinGameUnchecked(success, playerId, snapshot, avatarMap) ==
    /\ ws = "open"
    /\ LET v == centerViewportOnMyAvatar(playerId, snapshot, canvasWidth,
                                         canvasHeight, viewportX, viewportY)
       IN /\ myPlayerId' = playerId
          /\ players' = snapshot
          /\ avatars' = avatarMap
          /\ viewportX' = v.x
          /\ viewportY' = v.y
          /\ drawn' = drawPlayers(snapshot, v.x, v.y, canvasWidth, canvasHeight)
    /\ sent' = <<>>
    /\ UNCHANGED <<sessionVars, inputVars, canvasWidth, canvasHeight>>

\* handleJoinGame, dispatched by ws.onmessage for action join_game
HandleJoinGame(success, playerId, snapshot, avatarMap) ==
    /\ ws = "open"
    /\ IF success
       THEN LET v == centerViewportOnMyAvatar(playerId, snapshot, canvasWidth,
                                              canvasHeight, viewportX, viewportY)
            IN /\ myPlayerId' = playerId
               /\ players' = snapshot
               /\ avatars' = avatarMap
               /\ viewportX' = v.x
               /\ viewportY' = v.y
               /\ drawn' = drawPlayers(snapshot, v.x, v.y, canvasWidth, canvasHeight)
       ELSE UNCHANGED <<myPlayerId, players, avatars, viewportX, viewportY, drawn>>
    /\ sent' = <<>>
    /\ UNCHANGED <<sessionVars, inputVars, canvasWidth, canvasHeight>>

\* handlePlayersMoved, dispatched for action players_moved
HandlePlayersMoved(patch) ==
    /\ ws = "open"
    /\ players' = mergePlayers(players, patch)
    /\ LET v == IF myPlayerId # "null" /\ myPlayerId \in DOMAIN patch
                THEN updateViewportForMyAvatar(myPlayerId, players', canvasWidth,
                                               canvasHeight, viewportX, viewportY)
                ELSE [x |-> viewportX, y |-> viewportY]
       IN /\ viewportX' = v.x
          /\ viewportY' = v.y
          /\ drawn' = drawPlayers(players', v.x, v.y, canvasWidth, canvasHeight)
    /\ sent' = <<>>
    /\ UNCHANGED <<sessionVars, inputVars, myPlayerId, avatars, canvasWidth, canvasHeight>>

\* handlePlayerJoined, dispatched for action player_joined
HandlePlayerJoined(id, player, avatarName, avatar) ==
    /\ ws = "open"
    /\ players' = [i \in DOMAIN players \cup {id} |-> IF i = id THEN player ELSE players[i]]
    /\ avatars' = [n \in DOMAIN avatars \cup {avatarName} |->
                      IF n = avatarName THEN avatar ELSE avatars[n]]
    /\ drawn' = drawPlayers(players', viewportX, viewportY, canvasWidth, canvasHeight)
    /\ sent' = <<>>
    /\ UNCHANGED <<sessionVars, inputVars, myPlayerId, viewportX, viewportY,
                   canvasWidth, canvasHeight>>

\* handlePlayerLeft, dispatched for action player_left
HandlePlayerLeft(id) ==
    /\ ws = "open"
    /\ players' = [i \in DOMAIN players \ {id} |-> players[i]]
    /\ drawn' = drawPlayers(players', viewportX, viewportY, canvasWidth, canvasHeight)
    /\ sent' = <<>>
    /\ UNCHANGED <<sessionVars, inputVars, myPlayerId, avatars, viewportX, viewportY,
                   canvasWidth, canvasHeight>>

\* the resize listener of setupCanvas
Resize(size) ==
    /\ canvasWidth' = size[1]
    /\ canvasHeight' = size[2]
    /\ LET v == centerViewportOnMyAvatar(myPlayerId, players, size[1], size[2],
                                         viewportX, viewportY)
       IN /\ viewportX' = v.x
          /\ viewportY' = v.y
          /\ drawn' = drawPlayers(players, v.x, v.y, size[1], size[2])
    /\ sent' = <<>>
    /\ UNCHANGED <<sessionVars, inputVars, myPlayerId, players, avatars>>

\* ------------------------------------------------------------------------
\* Sprite pipeline and message dispatch
\* ------------------------------------------------------------------------

\* an avatar definition whose frames have south only, one frame long
IncompleteDefs == {"d3"}

\* avatar.frames of a definition: the facings it has frames for, each with
\* the length of its frame array; west is never stored
Frames(def) ==
    IF def \in IncompleteDefs
    THEN [f \in {"south"} |-> 1]
    ELSE [f \in {"north", "south", "east"} |-> 2]

\* drawPlayer up to img.src: "return" when it returns early, "throw" when
\* avatar.frames[direction] is undefined and indexing it is a TypeError,
\* "image" when it creates the Image and its onload closure
drawPlayer(player, av) ==
    IF player.avatar \notin DOMAIN av
    THEN "return"
    ELSE LET frames == Frames(av[player.avatar])
             direction == IF player.facing = "west" THEN "east" ELSE player.facing
             frameIndex == IF player.animationFrame = {} THEN {0}
                           ELSE player.animationFrame
         IN IF direction \notin DOMAIN frames
            THEN "throw"
            ELSE IF \E i \in frameIndex : i < frames[direction]
                 THEN "image"
                 ELSE "return"

\* the visible players whose drawPlayer throws
Throwing(visible, pl, av) == {id \in visible : drawPlayer(pl[id], av) = "throw"}

\* the sets of players the forEach of drawPlayers can get through: all the
\* visible ones, or, when a drawPlayer throws, those that Object.values
\* lists up to the first one that throws; the model does not keep the
\* insertion order of the ids, so every order is taken
Processed(visible, pl, av) ==
    IF Throwing(visible, pl, av) = {}
    THEN {visible}
    ELSE {before \cup {t} : t \in Throwing(visible, pl, av),
                            before \in SUBSET (visible \ Throwing(visible, pl, av))}

\* the sprites of the draw() that ends a handler: the closures of earlier
\* passes stay pending, every processed player with a frame gets a new one
DrawSprites ==
    /\ \E processed \in Processed(drawn', players', avatars') :
          pendingImages' =
              {[id |-> c.id, stale |-> TRUE] : c \in pendingImages}
              \cup {[id |-> id, stale |-> FALSE] :
                       id \in {p \in processed : drawPlayer(players'[p], avatars') = "image"}}
    /\ fault' = (Throwing(drawn', players', avatars') # {})
    /\ painted' = {}

\* img.onload of a sprite: paints the sprite and the label of the captured
\* player at the captured screen position
ImageLoaded(c) ==
    /\ c \in pendingImages
    /\ pendingImages' = pendingImages \ {c}
    /\ painted' = {c}
    /\ fault' = FALSE
    /\ sent' = <<>>
    /\ UNCHANGED <<sessionVars, inputVars, myPlayerId, players, avatars, viewportX,
                   viewportY, canvasWidth, canvasHeight, drawn, received>>

\* a handler that throws before it has assigned anything, or a message that
\* the switch of handleServerMessage only logs
NothingDone(kind, throws) ==
    /\ ws = "open"
    /\ received' = kind
    /\ fault' = throws
    /\ painted' = {}
    /\ sent' = <<>>
    /\ UNCHANGED <<sessionVars, inputVars, myPlayerId, players, avatars, viewportX,
                   viewportY, canvasWidth, canvasHeight, drawn, pendingImages>>

\* ws.onmessage with a join_game message
DispatchJoinGame(success, playerId, snapshot, avatarMap) ==
    /\ HandleJoinGame(success, playerId, snapshot, avatarMap)
    /\ received' = "join_game"
    /\ IF success
       THEN DrawSprites
       ELSE fault' = FALSE /\ painted' = {} /\ UNCHANGED pendingImages

\* ws.onmessage with a players_moved message that has a players map
DispatchPlayersMoved(patch) ==
    /\ HandlePlayersMoved(patch)
    /\ received' = "players_moved"
    /\ DrawSprites

\* ws.onmessage with a players_moved message without players:
\* Object.keys(undefined) is a TypeError
DispatchPlayersMovedNoMap == NothingDone("players_moved", TRUE)

\* ws.onmessage with a player_joined message that has player and avatar
DispatchPlayerJoined(id, player, avatarName, avatar) ==
    /\ HandlePlayerJoined(id, player, avatarName, avatar)
    /\ received' = "player_joined"
    /\ DrawSprites

\* ws.onmessage with a player_joined message without player:
\* data.player.id is a TypeError
DispatchPlayerJoinedNoPlayer == NothingDone("player_joined", TRUE)

\* ws.onmessage with a player_joined message with player, without avatar: the
\* player is stored, then data.avatar.name is a TypeError
DispatchPlayerJoinedNoAvatar(id, player) ==
    /\ ws = "open"
    /\ players' = [i \in DOMAIN players \cup {id} |-> IF i = id THEN player ELSE players[i]]
    /\ received' = "player_joined"
    /\ fault' = TRUE
    /\ painted' = {}
    /\ sent' = <<>>
    /\ UNCHANGED <<sessionVars, inputVars, myPlayerId, avatars, viewportX, viewportY,
                   canvasWidth, canvasHeight, drawn, pendingImages>>

\* ws.onmessage with a player_left message
DispatchPlayerLeft(id) ==
    /\ HandlePlayerLeft(id)
    /\ received' = "player_left"
    /\ DrawSprites

\* ws.onmessage with a message of an action the switch does not know
DispatchUnknown == NothingDone("unknown", FALSE)

\* ws.onmessage with text that JSON.parse rejects with a SyntaxError
DispatchUnparsable == NothingDone("unparsable", TRUE)

\* ------------------------------------------------------------------------
\* Specifications
\* ------------------------------------------------------------------------

\* the state after `new GameClient()`: init() has called connectToServer once
Init ==
    /\ \E throws \in BOOLEAN :
         LET r == connectToServer(throws, "null", 0, 0, 0)
         IN /\ ws = r.ws
            /\ reconnectAttempts = r.attempts
            /\ timers = r.timers
            /\ scheduled = r.scheduled
    /\ keysPressed = <<>>
    /\ isMoving = FALSE
    /\ currentDirection = "null"
    /\ movementLoopId = FALSE
    /\ frameRequests = 0
    /\ dropped = "none"
    /\ sent = <<>>
    /\ myPlayerId = "null"
    /\ players = <<>>
    /\ avatars = <<>>
    /\ viewportX = {0}
    /\ viewportY = {0}
    /\ \E size \in CanvasSizes : canvasWidth = size[1] /\ canvasHeight = size[2]
    /\ drawn = {}
    /\ received = "none"
    /\ fault = FALSE
    /\ pendingImages = {}
    /\ painted = {}

\* the session and the movement controller
SessionNext ==
    \/ MovementLoop
    \/ OnOpen
    \/ OnClose
    \/ ReconnectTimer
    \/ \E key \in movementKeys : Keydown(key)
    \/ \E key \in movementKeys : Keyup(key)

\* the store, the camera and the culling of a session that is connected; the
\* sprites the draw pass starts are not followed
WorldNext ==
    \/ OnOpen
    \/ /\ \E playerId \in PlayerIds, avatarMap \in AvatarMaps :
            \E snapshot \in Snapshots(playerId) :
              HandleJoinGame(TRUE, playerId, snapshot, avatarMap)
       /\ UNCHANGED pipelineVars
    \/ HandleJoinGame(FALSE, "null", <<>>, <<>>) /\ UNCHANGED pipelineVars
    \/ /\ \E patch \in Patches : HandlePlayersMoved(patch)
       /\ UNCHANGED pipelineVars
    \/ /\ \E id \in PlayerIds, player \in FullRecords, name \in AvatarNames,
             avatar \in AvatarDefs : HandlePlayerJoined(id, player, name, avatar)
       /\ UNCHANGED pipelineVars
    \/ (\E id \in PlayerIds : HandlePlayerLeft(id)) /\ UNCHANGED pipelineVars
    \/ (\E size \in CanvasSizes : Resize(size)) /\ UNCHANGED pipelineVars

\* the messages of a small session: one position, one complete avatar definition
DispatchRecord == CHOOSE r \in FullRecords : r.x = {100}

DispatchSnapshots == {[id \in S |-> DispatchRecord] : S \in {{"A"}, {"A", "B"}}}

DispatchAvatars == [n \in {"a1"} |-> "d1"]

DispatchPatches == {[id \in {i} |-> [NoFields EXCEPT !.x = {900}]] : i \in PlayerIds}

\* the store under every players_moved patch, from a snapshot at one position
StoreNext ==
    \/ OnOpen
    \/ /\ \E snapshot \in DispatchSnapshots :
            HandleJoinGame(TRUE, "A", snapshot, DispatchAvatars)
       /\ UNCHANGED pipelineVars
    \/ /\ \E patch \in Patches : HandlePlayersMoved(patch)
       /\ UNCHANGED pipelineVars
    \/ (\E id \in PlayerIds : HandlePlayerLeft(id)) /\ UNCHANGED pipelineVars

StoreSpec == Init /\ [][StoreNext]_vars

\* the transport session and the dispatch of well-formed and malformed messages
DispatchNext ==
    \/ OnOpen
    \/ OnClose
    \/ ReconnectTimer
    \/ \E snapshot \in DispatchSnapshots :
         DispatchJoinGame(TRUE, "A", snapshot, DispatchAvatars)
    \/ DispatchJoinGame(FALSE, "null", <<>>, <<>>)
    \/ \E patch \in DispatchPatches : DispatchPlayersMoved(patch)
    \/ DispatchPlayersMovedNoMap
    \/ DispatchPlayerJoined("B", DispatchRecord, "a1", "d2")
    \/ DispatchPlayerJoinedNoPlayer
    \/ DispatchPlayerJoinedNoAvatar("B", DispatchRecord)
    \/ \E id \in PlayerIds : DispatchPlayerLeft(id)
    \/ DispatchUnknown
    \/ DispatchUnparsable

DispatchSpec == Init /\ [][DispatchNext]_vars

\* the players of a session whose sprites are followed: facing south or west,
\* first or second frame
RenderRecords ==
    {[x |-> {100}, y |-> {100}, avatar |-> "a1", facing |-> f, animationFrame |-> {i}] :
        f \in {"south", "west"}, i \in {0, 1}}

\* data.avatars of join_game: no avatar, a complete one, an incomplete one
RenderAvatarMaps == {<<>>} \cup {[n \in {"a1"} |-> d] : d \in {"d1"} \cup IncompleteDefs}

RenderPatches == {[id \in {"A"} |-> [NoFields EXCEPT !.x = {300}]]}

\* the draw passes of a connected session and the image loads they start
RenderNext ==
    \/ OnOpen
    \/ \E player \in RenderRecords, avatarMap \in RenderAvatarMaps :
         DispatchJoinGame(TRUE, "A", [id \in {"A"} |-> player], avatarMap)
    \/ \E patch \in RenderPatches : DispatchPlayersMoved(patch)
    \/ \E player \in RenderRecords, avatar \in {"d1"} \cup IncompleteDefs :
         DispatchPlayerJoined("B", player, "a1", avatar)
    \/ \E id \in PlayerIds : DispatchPlayerLeft(id)
    \/ \E c \in pendingImages : ImageLoaded(c)

RenderSpec == Init /\ [][RenderNext]_vars

Next == SessionNext \/ WorldNext \/ DispatchNext \/ RenderNext

\* every event of the client
Spec == Init /\ [][Next]_vars

SessionSpec == Init /\ [][SessionNext]_vars

\* frames keep being delivered while a frame request is outstanding
FairSessionSpec == SessionSpec /\ WF_vars(MovementLoop)

WorldSpec == Init /\ [][WorldNext]_vars

\* ------------------------------------------------------------------------
\* Properties of the transport session
\* ------------------------------------------------------------------------

\* no socket is connecting or open and no reconnection timer is pending
Failed == ws \notin {"connecting", "open"} /\ timers = 0

\* C1: reconnection is bounded.  The attempt counter stays in 0..5 and at most
\* 5 timers are scheduled without a successful open in between; a close that
\* finds 5 attempts made schedules no timer; once the session is Failed it
\* stays Failed; the counter returns to 0 only in the step of a successful open.
C1_ReconnectionBounded ==
    /\ [](reconnectAttempts \in 0..maxReconnectAttempts)
    /\ [](scheduled <= maxReconnectAttempts)
    /\ [](Failed => reconnectAttempts = maxReconnectAttempts)
    /\ [][(ws' = "closed" /\ ws # "closed" /\ scheduled = maxReconnectAttempts)
            => (timers' = 0 /\ scheduled' = scheduled)]_vars
    /\ [][Failed => Failed']_vars
    /\ [][(reconnectAttempts' = 0 /\ reconnectAttempts # 0)
            => (ws = "connecting" /\ ws' = "open")]_vars

\* the fifth attempt has failed and nothing is left to reconnect
C1_Witness == Failed /\ ws = "closed" /\ scheduled = maxReconnectAttempts

\* C2: at most one reconnection timer is pending in every reachable state.
C2_OneTimerPending == timers <= 1

\* a timer is pending for the third attempt in a row
C2_Witness == timers = 1 /\ reconnectAttempts = 3 /\ ws = "closed"

\* ------------------------------------------------------------------------
\* Properties of the movement controller
\* ------------------------------------------------------------------------

\* the canonical direction of a movement key, arrows and WASD in either case
CanonicalDirection(key) ==
    CASE key \in {"ArrowUp", "w", "W"} -> "up"
      [] key \in {"ArrowDown", "s", "S"} -> "down"
      [] key \in {"ArrowLeft", "a", "A"} -> "left"
      [] key \in {"ArrowRight", "d", "D"} -> "right"

MoveCount(msgs) == Cardinality({i \in 1..Len(msgs) : msgs[i].action = "move"})

\* C5: a move intent dropped on a closed channel is superseded by a later
\* tick: while its key stays first-held and the channel is open, a move with
\* that direction is eventually transmitted.
C5_DroppedMoveSuperseded ==
    \A d \in Directions :
        (dropped = d /\ ws = "open") ~> (dropped # d \/ ws # "open")

\* C6: on a tick with keys held, exactly one move intent is sent when the
\* direction of the first-held key differs from the last direction sent, and
\* none when it is the same.
C6_OneMovePerDirectionChange ==
    [][(MovementLoop /\ keysPressed # <<>>)
         => MoveCount(sent') =
              IF CanonicalDirection(Head(keysPressed)) # currentDirection THEN 1 ELSE 0]_vars

\* C7: after a tick with keys held, the active direction is that of the
\* oldest-pressed key still held.
C7_PressOrderPriority ==
    [][(MovementLoop /\ keysPressed # <<>>)
         => currentDirection' = CanonicalDirection(Head(keysPressed))]_vars

\* C8: when a recognized key, in either letter case, is first-held on an open
\* channel and its direction is not the one last sent, the tick transmits a
\* move intent with that key's direction.
C8_EveryKeyMapsToDirection ==
    [][(MovementLoop /\ keysPressed # <<>> /\ ws = "open"
          /\ currentDirection # CanonicalDirection(Head(keysPressed)))
         => sent' = <<[action |-> "move",
                       direction |-> CanonicalDirection(Head(keysPressed)),
                       delivered |-> TRUE]>>]_vars

\* ------------------------------------------------------------------------
\* Properties of the store, the camera and the draw pass
\* ------------------------------------------------------------------------

\* C3: players_moved leaves the set of player ids in the store unchanged.
C3_PatchIgnoresUnknownIds ==
    [][(DOMAIN players' # DOMAIN players)
         => ~(\E patch \in Patches : HandlePlayersMoved(patch))]_vars

\* C4: player_joined never overwrites the definition of an avatar name that
\* is already known.
C4_AvatarsImmutable ==
    [][(\E n \in DOMAIN avatars : n \notin DOMAIN avatars' \/ avatars'[n] # avatars[n])
         => ~(\E id \in PlayerIds, player \in FullRecords, name \in AvatarNames,
                 avatar \in AvatarDefs : HandlePlayerJoined(id, player, name, avatar))]_vars

\* a step that recentres the camera: a successful join, a players_moved whose
\* patch holds the local player, a resize
RecenterStep ==
    \/ \E playerId \in PlayerIds, avatarMap \in AvatarMaps :
         \E snapshot \in Snapshots(playerId) :
           HandleJoinGame(TRUE, playerId, snapshot, avatarMap)
    \/ \E patch \in Patches : myPlayerId \in DOMAIN patch /\ HandlePlayersMoved(patch)
    \/ \E size \in CanvasSizes : Resize(size)

\* an axis of the camera offset: inside [0, worldSize - viewportSize], and 0
\* when the world is smaller than the viewport
OffsetInRange(offset, worldSize, viewportSize) ==
    IF worldSize >= viewportSize
    THEN \E o \in offset : 0 <= o /\ o <= worldSize - viewportSize
    ELSE offset = {0}

LocalPlayerPresent == myPlayerId # "null" /\ myPlayerId \in DOMAIN players

ScenarioPlayers ==
    [id \in {"A", "B"} |->
        IF id = "A"
        THEN [x |-> {100}, y |-> {100}, avatar |-> "a1", facing |-> "south",
              animationFrame |-> {0}]
        ELSE [x |-> {900}, y |-> {900}, avatar |-> "a1", facing |-> "south",
              animationFrame |-> {0}]]

\* every player the last draw pass handed to the draw step is on screen,
\* within the margin of 50
DrawnOnScreen ==
    \A id \in drawn :
        /\ id \in DOMAIN players
        /\ \E px \in players[id].x, vx \in viewportX :
              -50 <= px - vx /\ px - vx <= canvasWidth + 50
        /\ \E py \in players[id].y, vy \in viewportY :
              -50 <= py - vy /\ py - vy <= canvasHeight + 50

\* C10: only players on screen (margin 50) are passed to the draw step; the
\* join snapshot of the scenario, on a canvas of 800x600 with local player A,
\* puts the camera at (0,0) and does not draw B.
C10_VisibleOnly ==
    /\ []DrawnOnScreen
    /\ [][(/\ canvasWidth = 800 /\ canvasHeight = 600
           /\ \E avatarMap \in AvatarMaps :
                HandleJoinGame(TRUE, "A", ScenarioPlayers, avatarMap))
            => (viewportX' = {0} /\ viewportY' = {0} /\ drawn' = {"A"})]_vars

\* the scenario has been joined and A is the only player drawn
C10_Witness ==
    /\ myPlayerId = "A"
    /\ players = ScenarioPlayers
    /\ canvasWidth = 800 /\ canvasHeight = 600
    /\ viewportX = {0} /\ viewportY = {0}
    /\ drawn = {"A"}

\* the entries of the patch for players of the mirror are merged field by
\* field: a field of the patch replaces the value, every other field and every
\* other player of the mirror keeps its value
MergedFieldwise(patch) ==
    /\ \A id \in DOMAIN patch \cap DOMAIN players :
          /\ id \in DOMAIN players'
          /\ players'[id].x = (IF patch[id].x # {} THEN patch[id].x ELSE players[id].x)
          /\ players'[id].y = (IF patch[id].y # {} THEN patch[id].y ELSE players[id].y)
          /\ players'[id].avatar = players[id].avatar
          /\ players'[id].facing = players[id].facing
          /\ players'[id].animationFrame = players[id].animationFrame
    /\ \A id \in DOMAIN players \ DOMAIN patch :
          id \in DOMAIN players' /\ players'[id] = players[id]

\* C11: a movement patch applied to a player of the mirror is a field-by-field
\* last-write-wins merge: after each players_moved every field carried by the
\* patch holds the patch's value and every other field keeps its value, so that
\* after any sequence of patches a field holds the value of the last patch that
\* carried it.
C11_LastWriteWins ==
    [][\A patch \in Patches : (MergedFieldwise(patch) \/ ~HandlePlayersMoved(patch))]_vars

\* A holds an x that only a patch can have given it, next to the y and the
\* avatar of its complete record
C11_Witness ==
    /\ "A" \in DOMAIN players
    /\ players["A"].x = {2100}
    /\ players["A"].y = {100}
    /\ players["A"].avatar = "a1"

\* ------------------------------------------------------------------------
\* Properties of what is transmitted on a connection
\* ------------------------------------------------------------------------

Transmitted(msgs) == {i \in 1..Len(msgs) : msgs[i].delivered}

\* C15: on every connection the first intent transmitted is exactly one
\* join_game, sent in the step of the open event: the step that opens the
\* channel transmits one join_game and nothing else, a join_game is sent in
\* no other step, and whatever is transmitted in any other step is
\* transmitted on a channel that is open, hence after that join_game.
C15_JoinFirst ==
    [][/\ (ws # "open" /\ ws' = "open")
            => sent' = <<[action |-> "join_game", direction |-> "none",
                          delivered |-> TRUE]>>
       /\ ~(ws # "open" /\ ws' = "open")
            => (/\ \A i \in 1..Len(sent') : sent'[i].action # "join_game"
                /\ Transmitted(sent') # {} => ws = "open")]_vars

\* the channel has opened while a key was held and a direction was active,
\* and the join_game is what that step transmitted
C15_Witness ==
    /\ ws = "open"
    /\ sent = <<[action |-> "join_game", direction |-> "none", delivered |-> TRUE]>>
    /\ keysPressed # <<>>
    /\ currentDirection # "none"

\* ------------------------------------------------------------------------
\* Properties of the movement loop's lifecycle
\* ------------------------------------------------------------------------

\* C19: a frame callback of the movement loop is pending iff a key is held,
\* never more than one is pending, the stored request id stands for exactly
\* that callback, and a loop with no callback pending gets one again only in
\* a keydown step that adds a key.
C19_LoopLifecycle ==
    /\ []((frameRequests > 0) <=> (keysPressed # <<>>))
    /\ [](frameRequests <= 1)
    /\ [](movementLoopId <=> (frameRequests = 1))
    /\ [][(frameRequests = 0 /\ frameRequests' > 0)
            => Len(keysPressed') = Len(keysPressed) + 1]_vars

\* the loop has been stopped by the release of the last key after a move
\* was sent: the stop went out and no callback is left
C19_Witness ==
    /\ keysPressed = <<>>
    /\ frameRequests = 0
    /\ ~movementLoopId
    /\ dropped = "none"
    /\ Len(sent) = 1 /\ sent[1].action = "stop" /\ sent[1].delivered

StopCount(msgs) == Cardinality({i \in 1..Len(msgs) : msgs[i].action = "stop"})

\* C20: a stop intent is handed to the channel exactly once in a step that
\* takes the held-key set from non-empty to empty, and in no other step.
C20_StopOncePerRelease ==
    [][StopCount(sent') =
         IF keysPressed # <<>> /\ keysPressed' = <<>> THEN 1 ELSE 0]_vars

\* ------------------------------------------------------------------------
\* Properties of the join and of message dispatch
\* ------------------------------------------------------------------------

\* C12: in every state where the session is Failed, myPlayerId is null.
C12_ClearedWhenFailed == Failed => myPlayerId = "null"

\* the store and the camera offset
storeVars == <<myPlayerId, players, avatars, viewportX, viewportY>>

\* C13: a join_game message with success = false leaves myPlayerId, the
\* players, the avatars and the camera offset as they are, the channel open,
\* the reconnection counter and timers as they are, sends nothing and
\* raises no error.
C13_RejectedJoinChangesNothing ==
    [][DispatchJoinGame(FALSE, "null", <<>>, <<>>)
         => (/\ UNCHANGED storeVars
             /\ ws' = "open"
             /\ UNCHANGED <<reconnectAttempts, timers, scheduled>>
             /\ sent' = <<>>
             /\ ~fault')]_vars

\* a session that has been joined and populated gets a rejected join: the last
\* message was a join_game and the local player and the mirror are still there
C13_Witness ==
    /\ received = "join_game"
    /\ ws = "open"
    /\ myPlayerId = "A"
    /\ DOMAIN players = {"A", "B"}
    /\ players["A"].x = {900}

\* C17: the dispatch of a message with an unknown action, of text that is
\* no JSON, or of a malformed message (players_moved without players,
\* player_joined without player or without avatar) raises no error and leaves
\* the store and the camera offset as they are.
C17_DispatchNeverFaults ==
    [][(\/ DispatchUnknown
        \/ DispatchUnparsable
        \/ DispatchPlayersMovedNoMap
        \/ DispatchPlayerJoinedNoPlayer
        \/ DispatchPlayerJoinedNoAvatar("B", DispatchRecord))
         => (~fault' /\ UNCHANGED storeVars)]_vars

\* ------------------------------------------------------------------------
\* Properties of the sprite pipeline
\* ------------------------------------------------------------------------

\* a step that dispatches a message, and so ends with a draw pass
MessageStep == ~OnOpen /\ ~(\E c \in pendingImages : ImageLoaded(c))

\* the avatar of the player is known and has a frame for the player's facing
\* (east for west) at the player's animation index
HasFrame(player, av) ==
    /\ player.avatar \in DOMAIN av
    /\ LET facing == IF player.facing = "west" THEN "east" ELSE player.facing
       IN /\ facing \in DOMAIN Frames(av[player.avatar])
          /\ \E i \in (IF player.animationFrame = {} THEN {0} ELSE player.animationFrame) :
                i < Frames(av[player.avatar])[facing]

\* the image of a player started by the last draw pass
FreshImage(id) == [id |-> id, stale |-> FALSE]

\* C14: player_left changes neither the avatars, nor myPlayerId, nor the
\* camera offset; the id is absent afterwards and every other player is
\* kept, so that for an absent id the players are unchanged and a second
\* player_left changes nothing more; and it raises no error.
C14_PlayerLeftIdempotent ==
    [][\A id \in PlayerIds :
          DispatchPlayerLeft(id)
            => (/\ UNCHANGED <<avatars, myPlayerId, viewportX, viewportY>>
                /\ DOMAIN players' = DOMAIN players \ {id}
                /\ \A other \in DOMAIN players' : players'[other] = players[other]
                /\ ~fault')]_vars

\* C16: a draw pass raises no error; a visible player without avatar or
\* without a frame for its facing and index gets no image, and every other
\* visible player gets one, wherever it comes in the pass.
C16_MissingFrameSkipped ==
    [][MessageStep
         => (/\ ~fault'
             /\ \A id \in drawn' :
                   HasFrame(players'[id], avatars') <=> (FreshImage(id) \in pendingImages'))]_vars

\* C18: whatever is painted is painted from the latest draw pass and shows a
\* player of the store.
C18_NothingStalePainted ==
    \A c \in painted : ~c.stale /\ c.id \in DOMAIN players

====
